---------------------------- MODULE Spec2Model ----------------------------
(***************************************************************************)
(* Socket address value types (libcore/net/addr.rs), their native-form     *)
(* bridge (libstd/net/addr.rs, libstd/net/ip.rs), their textual form and   *)
(* the ToSocketAddrs resolution protocol (libstd/net/addr.rs).             *)
(*                                                                         *)
(* Values are modelled structurally:                                       *)
(*   Ipv4Addr      a 4-tuple of octets                                     *)
(*   Ipv6Addr      an 8-tuple of 16-bit segments                           *)
(*   IpAddr        [tag |-> "V4" | "V6", a |-> the address]                *)
(*   SocketAddrV4  [ip, port]                                              *)
(*   SocketAddrV6  [ip, port, flowinfo, scope_id]                          *)
(*   SocketAddr    [tag |-> "V4" | "V6", a |-> the struct]                 *)
(* A `&mut self` method is an operator returning the new value of self.    *)
(***************************************************************************)
EXTENDS Integers, Sequences, FiniteSets, TLC

VARIABLES
    self,      \* Spec: the SocketAddr being mutated
    old,       \* Spec: the value of self before the last operation
    last,      \* Spec: the last operation and its argument
    older,     \* Spec: old and last as they were before the last operation
    endian,    \* SpecNative: the target's byte order, "little" or "big"
    val,       \* SpecNative: the value handed to IntoInner
    native,    \* SpecNative: the native form produced
    back,      \* SpecNative: the value FromInner rebuilt from native
    nstage,    \* SpecNative: "start", "encoded" or "decoded"
    tval,      \* SpecText: the value handed to Display
    text,      \* SpecText: the string Display produced
    parsed,    \* SpecText: what FromStr made of text
    tstage,    \* SpecText: "start", "formatted" or "parsed"
    input,     \* SpecResolve: the value to_socket_addrs is called on
    pc,        \* SpecResolve: "ready", "lookup", "collect", "returned", "exhausted"
    req,       \* SpecResolve: the host and port handed to the resolver
    lh,        \* SpecResolve: the LookupHost: records not yet read, and its port
    resolved,  \* SpecResolve: the records the resolver produced, in its order
    v,         \* SpecResolve: the Vec resolve_socket_addr collects into
    result,    \* SpecResolve: the io::Result returned; addrs is what the iterator still holds
    yielded,   \* SpecResolve: the elements the caller took from the iterator
    lookups,   \* SpecResolve: resolver invocations in this call
    reads      \* SpecResolve: records read from the LookupHost

addrVars == <<self, old, last, older>>

nativeVars == <<endian, val, native, back, nstage>>

textVars == <<tval, text, parsed, tstage>>

resolveVars == <<input, pc, req, lh, resolved, v, result, yielded, lookups, reads>>

vars ==
    <<self, old, last, older, endian, val, native, back, nstage, tval, text, parsed, tstage,
      input, pc, req, lh, resolved, v, result, yielded, lookups, reads>>

---------------------------------------------------------------------------
(* Sample values the inputs are drawn from.                                *)

Ipv4Samples ==
    { <<127, 0, 0, 1>>, <<77, 88, 21, 11>>, <<0, 0, 0, 0>>, <<255, 255, 255, 255>> }

Ipv6Samples ==
    { <<0, 0, 0, 0, 0, 0, 0, 1>>,
      <<10754, 1720, 0, 1, 0, 0, 0, 1>>,
      <<0, 0, 0, 0, 0, 65535, 0, 1>> }

PortSamples == {0, 80, 8080, 65535}

FlowinfoSamples == {0, 10}

ScopeIdSamples == {0, 78}

Ipv4Addr == [1..4 -> 0..255]

Ipv6Addr == [1..8 -> 0..65535]

---------------------------------------------------------------------------
(* libcore/net/addr.rs: the value types.                                   *)

IpAddr_V4(a) == [tag |-> "V4", a |-> a]

IpAddr_V6(a) == [tag |-> "V6", a |-> a]

SocketAddr_V4(a) == [tag |-> "V4", a |-> a]

SocketAddr_V6(a) == [tag |-> "V6", a |-> a]

SocketAddrV4_new(ip, port) == [ip |-> ip, port |-> port]

SocketAddrV4_ip(a) == a.ip

SocketAddrV4_set_ip(a, new_ip) == [a EXCEPT !.ip = new_ip]

SocketAddrV4_port(a) == a.port

SocketAddrV4_set_port(a, new_port) == [a EXCEPT !.port = new_port]

SocketAddrV6_new(ip, port, flowinfo, scope_id) ==
    [ip |-> ip, port |-> port, flowinfo |-> flowinfo, scope_id |-> scope_id]

SocketAddrV6_ip(a) == a.ip

SocketAddrV6_set_ip(a, new_ip) == [a EXCEPT !.ip = new_ip]

SocketAddrV6_port(a) == a.port

SocketAddrV6_set_port(a, new_port) == [a EXCEPT !.port = new_port]

SocketAddrV6_flowinfo(a) == a.flowinfo

SocketAddrV6_set_flowinfo(a, new_flowinfo) == [a EXCEPT !.flowinfo = new_flowinfo]

SocketAddrV6_scope_id(a) == a.scope_id

SocketAddrV6_set_scope_id(a, new_scope_id) == [a EXCEPT !.scope_id = new_scope_id]

SocketAddr_new(ip, port) ==
    IF ip.tag = "V4"
    THEN SocketAddr_V4(SocketAddrV4_new(ip.a, port))
    ELSE SocketAddr_V6(SocketAddrV6_new(ip.a, port, 0, 0))

SocketAddr_ip(s) ==
    IF s.tag = "V4"
    THEN IpAddr_V4(SocketAddrV4_ip(s.a))
    ELSE IpAddr_V6(SocketAddrV6_ip(s.a))

SocketAddr_port(s) ==
    IF s.tag = "V4" THEN SocketAddrV4_port(s.a) ELSE SocketAddrV6_port(s.a)

\* A slip in the cross-family arm: the rebuilt value takes a default port.
SocketAddr_set_ip_DropsPort(s, new_ip) ==
    IF s.tag = "V4" /\ new_ip.tag = "V4"
    THEN SocketAddr_V4(SocketAddrV4_set_ip(s.a, new_ip.a))
    ELSE IF s.tag = "V6" /\ new_ip.tag = "V6"
    THEN SocketAddr_V6(SocketAddrV6_set_ip(s.a, new_ip.a))
    ELSE SocketAddr_new(new_ip, 0)

\* A slip: the value is always rebuilt, a V6 one given a V6 address too.
SocketAddr_set_ip_AlwaysRebuilds(s, new_ip) ==
    SocketAddr_new(new_ip, SocketAddr_port(s))

SocketAddr_set_ip(s, new_ip) ==
    IF s.tag = "V4" /\ new_ip.tag = "V4"
    THEN SocketAddr_V4(SocketAddrV4_set_ip(s.a, new_ip.a))
    ELSE IF s.tag = "V6" /\ new_ip.tag = "V6"
    THEN SocketAddr_V6(SocketAddrV6_set_ip(s.a, new_ip.a))
    ELSE SocketAddr_new(new_ip, SocketAddr_port(s))

\* A slip in the V6 arm: the value is rebuilt instead of mutated in place.
SocketAddr_set_port_Rebuilds(s, new_port) ==
    IF s.tag = "V4"
    THEN SocketAddr_V4(SocketAddrV4_set_port(s.a, new_port))
    ELSE SocketAddr_new(SocketAddr_ip(s), new_port)

SocketAddr_set_port(s, new_port) ==
    IF s.tag = "V4"
    THEN SocketAddr_V4(SocketAddrV4_set_port(s.a, new_port))
    ELSE SocketAddr_V6(SocketAddrV6_set_port(s.a, new_port))

\* A copy-and-paste slip: both arms answer true.
SocketAddr_is_ipv4_BothTrue(s) == IF s.tag = "V4" THEN TRUE ELSE TRUE

SocketAddr_is_ipv4(s) == IF s.tag = "V4" THEN TRUE ELSE FALSE

SocketAddr_is_ipv6(s) == IF s.tag = "V4" THEN FALSE ELSE TRUE

From_SocketAddrV4(sock4) == SocketAddr_V4(sock4)

From_SocketAddrV6(sock6) == SocketAddr_V6(sock6)

From_pieces(ip, port) == SocketAddr_new(ip, port)

---------------------------------------------------------------------------
(* Text.  A string is a sequence of one-character strings.  The number    *)
(* and address grammars (read_number, the dotted quad, colon-hex with one  *)
(* "::" and an optional dotted-quad tail) and the Display of the two IP    *)
(* types belong to the parser and ip modules; the Display of the socket    *)
(* address types is libcore/net/addr.rs.                                   *)

Some(x) == [ok |-> TRUE, v |-> x]

None == [ok |-> FALSE, v |-> <<>>]

LowerDigits ==
    <<"0", "1", "2", "3", "4", "5", "6", "7", "8", "9", "a", "b", "c", "d", "e", "f">>

UpperDigits ==
    <<"0", "1", "2", "3", "4", "5", "6", "7", "8", "9", "A", "B", "C", "D", "E", "F">>

IsDigit(c, radix) == \E i \in 1..radix : LowerDigits[i] = c \/ UpperDigits[i] = c

DigitValue(c) == (CHOOSE i \in 1..16 : LowerDigits[i] = c \/ UpperDigits[i] = c) - 1

RECURSIVE NumberValue(_, _)
NumberValue(s, radix) ==
    IF s = <<>> THEN 0
    ELSE NumberValue(SubSeq(s, 1, Len(s) - 1), radix) * radix + DigitValue(s[Len(s)])

read_number(s, radix, max_digits, upto) ==
    IF Len(s) \in 1..max_digits /\ \A i \in 1..Len(s) : IsDigit(s[i], radix)
    THEN (IF NumberValue(s, radix) < upto THEN Some(NumberValue(s, radix)) ELSE None)
    ELSE None

RECURSIVE fmt_radix(_, _)
fmt_radix(n, radix) ==
    IF n < radix THEN <<LowerDigits[n + 1]>>
    ELSE fmt_radix(n \div radix, radix) \o <<LowerDigits[(n % radix) + 1]>>

RECURSIVE Split(_, _)
Split(s, c) ==
    IF \A i \in 1..Len(s) : s[i] # c THEN <<s>>
    ELSE LET i == CHOOSE k \in 1..Len(s) : s[k] = c /\ \A j \in 1..(k - 1) : s[j] # c
         IN  <<SubSeq(s, 1, i - 1)>> \o Split(SubSeq(s, i + 1, Len(s)), c)

Display_Ipv4Addr(a) ==
    fmt_radix(a[1], 10) \o <<".">> \o fmt_radix(a[2], 10) \o <<".">>
        \o fmt_radix(a[3], 10) \o <<".">> \o fmt_radix(a[4], 10)

\* Four decimal numbers below 256, of one to three digits each.
read_ipv4_addr(parts) ==
    LET n(i) == read_number(parts[i], 10, 3, 256)
    IN  IF Len(parts) = 4 /\ \A i \in 1..4 : n(i).ok
        THEN Some(<<n(1).v, n(2).v, n(3).v, n(4).v>>)
        ELSE None

parse_Ipv4Addr(s) == read_ipv4_addr(Split(s, "."))

RECURSIVE JoinGroups(_, _, _)
JoinGroups(a, from, to) ==
    IF from > to THEN <<>>
    ELSE IF from = to THEN fmt_radix(a[from], 16)
    ELSE fmt_radix(a[from], 16) \o <<":">> \o JoinGroups(a, from + 1, to)

ZeroRun(a, i) ==
    CHOOSE k \in 0..(9 - i) :
        /\ \A j \in i..(i + k - 1) : a[j] = 0
        /\ (i + k = 9 \/ a[i + k] # 0)

Display_Ipv6Addr(a) ==
    LET tail4 == <<a[7] \div 256, a[7] % 256, a[8] \div 256, a[8] % 256>>
        longest == CHOOSE k \in 0..8 :
                       /\ \E i \in 1..8 : ZeroRun(a, i) = k
                       /\ \A i \in 1..8 : ZeroRun(a, i) <= k
        start == CHOOSE i \in 1..8 :
                       /\ ZeroRun(a, i) = longest
                       /\ \A j \in 1..(i - 1) : ZeroRun(a, j) < longest
    IN  IF \A i \in 1..8 : a[i] = 0 THEN <<":", ":">>
        ELSE IF (\A i \in 1..7 : a[i] = 0) /\ a[8] = 1 THEN <<":", ":", "1">>
        ELSE IF \A i \in 1..6 : a[i] = 0 THEN <<":", ":">> \o Display_Ipv4Addr(tail4)
        ELSE IF (\A i \in 1..5 : a[i] = 0) /\ a[6] = 65535
        THEN <<":", ":", "f", "f", "f", "f", ":">> \o Display_Ipv4Addr(tail4)
        ELSE IF longest > 1
        THEN JoinGroups(a, 1, start - 1) \o <<":", ":">> \o JoinGroups(a, start + longest, 8)
        ELSE JoinGroups(a, 1, 8)

\* One group: the hex number h followed by the groups r, or, where a
\* dotted quad may end the address, the quad q as two groups.
read_group(h, r, q, quad_allowed) ==
    IF h.ok
    THEN (IF r.ok THEN Some(<<h.v>> \o r.v) ELSE None)
    ELSE IF quad_allowed /\ q.ok
    THEN Some(<<q.v[1] * 256 + q.v[2], q.v[3] * 256 + q.v[4]>>)
    ELSE None

RECURSIVE read_groups(_, _)
read_groups(parts, ipv4_tail) ==
    IF parts = <<>> THEN Some(<<>>)
    ELSE read_group(read_number(Head(parts), 16, 4, 65536),
                    read_groups(Tail(parts), ipv4_tail),
                    parse_Ipv4Addr(Head(parts)),
                    ipv4_tail /\ Len(parts) = 1)

\* The groups of a text (none for the empty text).
read_groups_of(t, ipv4_tail) ==
    IF t = <<>> THEN Some(<<>>) ELSE read_groups(Split(t, ":"), ipv4_tail)

\* Without "::" all eight groups are there; with one "::" the groups hg
\* before it and tg after it, at most seven, are padded with zeros.
read_ipv6_addr(gaps, hg, tg, all) ==
    IF gaps = 0
    THEN (IF all.ok /\ Len(all.v) = 8 THEN Some(all.v) ELSE None)
    ELSE IF gaps = 1 /\ hg.ok /\ tg.ok /\ Len(hg.v) + Len(tg.v) <= 7
    THEN Some(hg.v \o [i \in 1..(8 - Len(hg.v) - Len(tg.v)) |-> 0] \o tg.v)
    ELSE None

parse_Ipv6Addr(s) ==
    LET cc == {i \in 1..(Len(s) - 1) : s[i] = ":" /\ s[i + 1] = ":"}
        k == CHOOSE i \in cc : TRUE
    IN  read_ipv6_addr(Cardinality(cc),
                       read_groups_of(SubSeq(s, 1, k - 1), FALSE),
                       read_groups_of(SubSeq(s, k + 2, Len(s)), TRUE),
                       read_groups(Split(s, ":"), TRUE))

\* "ip:port", once the text is cut at its colons.
read_socket_addr_v4(parts) ==
    LET ip == parse_Ipv4Addr(parts[1])
        port == read_number(parts[2], 10, 5, 65536)
    IN  IF Len(parts) = 2 /\ ip.ok /\ port.ok
        THEN Some(SocketAddrV4_new(ip.v, port.v))
        ELSE None

parse_SocketAddrV4(s) == read_socket_addr_v4(Split(s, ":"))

\* "[ip]:port": `framed` says the brackets and the colon are in place.
read_socket_addr_v6(framed, ip, port) ==
    IF framed /\ ip.ok /\ port.ok
    THEN Some(SocketAddrV6_new(ip.v, port.v, 0, 0))
    ELSE None

parse_SocketAddrV6(s) ==
    LET close == {i \in 1..Len(s) : s[i] = "]"}
        k == CHOOSE i \in close : \A j \in close : i <= j
    IN  read_socket_addr_v6(
            Len(s) > 0 /\ s[1] = "[" /\ close # {} /\ k + 1 <= Len(s) /\ s[k + 1] = ":",
            parse_Ipv6Addr(SubSeq(s, 2, k - 1)),
            read_number(SubSeq(s, k + 2, Len(s)), 10, 5, 65536))

\* The V4 form is tried first, then the V6 form.
read_socket_addr(v4, v6) ==
    IF v4.ok THEN Some(SocketAddr_V4(v4.v))
    ELSE IF v6.ok THEN Some(SocketAddr_V6(v6.v))
    ELSE None

parse_SocketAddr(s) == read_socket_addr(parse_SocketAddrV4(s), parse_SocketAddrV6(s))

Display_SocketAddrV4(a) ==
    Display_Ipv4Addr(SocketAddrV4_ip(a)) \o <<":">> \o fmt_radix(SocketAddrV4_port(a), 10)

\* A slip in the format string: the brackets around the address are left out.
Display_SocketAddrV6_NoBrackets(a) ==
    Display_Ipv6Addr(SocketAddrV6_ip(a)) \o <<":">> \o fmt_radix(SocketAddrV6_port(a), 10)

Display_SocketAddrV6(a) ==
    <<"[">> \o Display_Ipv6Addr(SocketAddrV6_ip(a)) \o <<"]", ":">>
        \o fmt_radix(SocketAddrV6_port(a), 10)

Display_SocketAddr(s) ==
    IF s.tag = "V4" THEN Display_SocketAddrV4(s.a) ELSE Display_SocketAddrV6(s.a)

---------------------------------------------------------------------------
(* Values the inputs range over.                                           *)

IpAddrSamples ==
    {IpAddr_V4(a) : a \in Ipv4Samples} \cup {IpAddr_V6(a) : a \in Ipv6Samples}

SocketAddrV4Samples ==
    {SocketAddrV4_new(a, p) : a \in Ipv4Samples, p \in PortSamples}

SocketAddrV6Samples ==
    {SocketAddrV6_new(a, p, f, sc) :
        a \in Ipv6Samples, p \in PortSamples, f \in FlowinfoSamples, sc \in ScopeIdSamples}

Constructed ==
    {SocketAddr_new(ip, p) : ip \in IpAddrSamples, p \in PortSamples}
        \cup {From_pieces(ip, p) : ip \in IpAddrSamples, p \in PortSamples}
        \cup {From_SocketAddrV4(a) : a \in SocketAddrV4Samples}
        \cup {From_SocketAddrV6(a) : a \in SocketAddrV6Samples}

NoIp == [tag |-> "none", a |-> <<>>]

---------------------------------------------------------------------------
(* Spec: a SocketAddr under any sequence of its mutators.                  *)

NativeIdle ==
    /\ endian = "little"
    /\ val = [kind |-> "none"]
    /\ native = [member |-> "none"]
    /\ back = [kind |-> "none"]
    /\ nstage = "idle"

NoReq == [host |-> <<>>, port |-> 0]

NoResult == [ok |-> FALSE, addrs |-> <<>>, err |-> "none"]

ResolveIdle ==
    /\ input = [shape |-> "none"]
    /\ pc = "idle"
    /\ req = NoReq
    /\ lh = [records |-> <<>>, port |-> 0]
    /\ resolved = <<>>
    /\ v = <<>>
    /\ result = NoResult
    /\ yielded = <<>>
    /\ lookups = 0
    /\ reads = 0

TextIdle ==
    /\ tval = [kind |-> "none"]
    /\ text = <<>>
    /\ parsed = None
    /\ tstage = "idle"

AddrIdle ==
    /\ self = SocketAddr_V4(SocketAddrV4_new(<<0, 0, 0, 0>>, 0))
    /\ old = self
    /\ last = [op |-> "idle", ip |-> NoIp, n |-> 0]
    /\ older = [val |-> old, last |-> last]

Init ==
    /\ self \in Constructed
    /\ old = self
    /\ last = [op |-> "new", ip |-> NoIp, n |-> 0]
    /\ older = [val |-> old, last |-> last]
    /\ NativeIdle
    /\ TextIdle
    /\ ResolveIdle

SetIp ==
    \E new_ip \in IpAddrSamples :
        /\ self' = SocketAddr_set_ip(self, new_ip)
        /\ old' = self
        /\ older' = [val |-> old, last |-> last]
        /\ last' = [op |-> "set_ip", ip |-> new_ip, n |-> 0]
        /\ UNCHANGED <<nativeVars, textVars, resolveVars>>

SetPort ==
    \E new_port \in PortSamples :
        /\ self' = SocketAddr_set_port(self, new_port)
        /\ old' = self
        /\ older' = [val |-> old, last |-> last]
        /\ last' = [op |-> "set_port", ip |-> NoIp, n |-> new_port]
        /\ UNCHANGED <<nativeVars, textVars, resolveVars>>

SetFlowinfo ==
    /\ self.tag = "V6"
    /\ \E new_flowinfo \in FlowinfoSamples :
        /\ self' = SocketAddr_V6(SocketAddrV6_set_flowinfo(self.a, new_flowinfo))
        /\ old' = self
        /\ older' = [val |-> old, last |-> last]
        /\ last' = [op |-> "set_flowinfo", ip |-> NoIp, n |-> new_flowinfo]
        /\ UNCHANGED <<nativeVars, textVars, resolveVars>>

SetScopeId ==
    /\ self.tag = "V6"
    /\ \E new_scope_id \in ScopeIdSamples :
        /\ self' = SocketAddr_V6(SocketAddrV6_set_scope_id(self.a, new_scope_id))
        /\ old' = self
        /\ older' = [val |-> old, last |-> last]
        /\ last' = [op |-> "set_scope_id", ip |-> NoIp, n |-> new_scope_id]
        /\ UNCHANGED <<nativeVars, textVars, resolveVars>>

Next == SetIp \/ SetPort \/ SetFlowinfo \/ SetScopeId

Spec == Init /\ [][Next]_vars

---------------------------------------------------------------------------
(* C1: after s.set_ip(n), s.ip() is n, the variant of s has the family of  *)
(* n, and s.port() is the port s had before the call; in all four family   *)
(* combinations and after any sequence of calls.                           *)
C1_SetIpKeepsPort ==
    last.op = "set_ip" =>
        /\ SocketAddr_ip(self) = last.ip
        /\ self.tag = last.ip.tag
        /\ SocketAddr_port(self) = SocketAddr_port(old)

\* A V6 value with a port other than 0 that has just been given a V4 address.
C1_Witness ==
    /\ last.op = "set_ip"
    /\ old.tag = "V6"
    /\ last.ip.tag = "V4"
    /\ SocketAddr_port(old) = 8080
    /\ self.tag = "V4"

(* C2: after s.set_port(p), s.port() is p and the variant, the IP and, for *)
(* a V6 value, flowinfo and scope_id are what they were.                   *)
C2_SetPortFrame ==
    last.op = "set_port" =>
        /\ SocketAddr_port(self) = last.n
        /\ self.tag = old.tag
        /\ SocketAddr_ip(self) = SocketAddr_ip(old)
        /\ (old.tag = "V6" =>
                /\ SocketAddrV6_flowinfo(self.a) = SocketAddrV6_flowinfo(old.a)
                /\ SocketAddrV6_scope_id(self.a) = SocketAddrV6_scope_id(old.a))

\* A V6 value with nonzero flowinfo and scope_id whose port has just changed.
C2_Witness ==
    /\ last.op = "set_port"
    /\ old.tag = "V6"
    /\ SocketAddrV6_flowinfo(old.a) = 10
    /\ SocketAddrV6_scope_id(old.a) = 78
    /\ SocketAddr_port(old) # SocketAddr_port(self)

(* C3: in every reachable state the socket-address variant and the IP      *)
(* variant agree: is_ipv4() exactly when ip() is an IpAddr::V4 (holding an *)
(* Ipv4Addr), is_ipv6() exactly when ip() is an IpAddr::V6 (holding an     *)
(* Ipv6Addr), and exactly one of the two is true.                          *)
C3_VariantsAgree ==
    /\ SocketAddr_is_ipv4(self) <=>
            (SocketAddr_ip(self).tag = "V4" /\ SocketAddr_ip(self).a \in Ipv4Addr)
    /\ SocketAddr_is_ipv6(self) <=>
            (SocketAddr_ip(self).tag = "V6" /\ SocketAddr_ip(self).a \in Ipv6Addr)
    /\ SocketAddr_is_ipv4(self) # SocketAddr_is_ipv6(self)

\* A value that changed family in the last set_ip and reports the new one.
C3_Witness ==
    /\ last.op = "set_ip"
    /\ old.tag = "V4"
    /\ SocketAddr_is_ipv6(self)
    /\ ~SocketAddr_is_ipv4(self)

(* C20: set_ip treats the V6 extra fields by case.  On a V6 value given a  *)
(* V6 IP, flowinfo and scope_id are left as they were; on a V4 value given *)
(* a V6 IP, the rebuilt V6 value has flowinfo = 0 and scope_id = 0.  So a  *)
(* V6 value that goes through set_ip(V4) and then set_ip(V6) ends with     *)
(* flowinfo = 0 and scope_id = 0, whatever they were, and with the port it *)
(* had at the start.                                                       *)
C20_SetIpExtrasByCase ==
    /\ (last.op = "set_ip" /\ old.tag = "V6" /\ last.ip.tag = "V6") =>
        /\ self.tag = "V6"
        /\ SocketAddrV6_flowinfo(self.a) = SocketAddrV6_flowinfo(old.a)
        /\ SocketAddrV6_scope_id(self.a) = SocketAddrV6_scope_id(old.a)
    /\ (last.op = "set_ip" /\ old.tag = "V4" /\ last.ip.tag = "V6") =>
        /\ self.tag = "V6"
        /\ SocketAddrV6_flowinfo(self.a) = 0
        /\ SocketAddrV6_scope_id(self.a) = 0
    /\ (/\ last.op = "set_ip"
        /\ last.ip.tag = "V6"
        /\ older.last.op = "set_ip"
        /\ older.last.ip.tag = "V4"
        /\ older.val.tag = "V6") =>
            /\ self.tag = "V6"
            /\ SocketAddrV6_flowinfo(self.a) = 0
            /\ SocketAddrV6_scope_id(self.a) = 0
            /\ SocketAddr_port(self) = SocketAddr_port(older.val)

\* A V6 value with flowinfo 10, scope_id 78 and port 8080 that was given a
\* V4 address and then its own V6 address again.
C20_Witness ==
    /\ last.op = "set_ip"
    /\ last.ip.tag = "V6"
    /\ older.last.op = "set_ip"
    /\ older.last.ip.tag = "V4"
    /\ older.val.tag = "V6"
    /\ SocketAddrV6_flowinfo(older.val.a) = 10
    /\ SocketAddrV6_scope_id(older.val.a) = 78
    /\ SocketAddr_port(older.val) = 8080
    /\ last.ip.a = SocketAddrV6_ip(older.val.a)
    /\ SocketAddrV6_flowinfo(self.a) = 0
    /\ SocketAddr_port(self) = 8080

---------------------------------------------------------------------------
(* Byte order and the platform's native structures.  hton/ntoh are         *)
(* to_be/from_be of the target: the identity on a big-endian target, a     *)
(* byte swap on a little-endian one.  A u16 is an integer; a u32 that      *)
(* carries an IPv4 address is a pair of 16-bit halves [hi, lo], so that    *)
(* every value of the width is representable.                              *)

swap_bytes_u16(x) == (x % 256) * 256 + (x \div 256)

swap_bytes_u32(x) == [hi |-> swap_bytes_u16(x.lo), lo |-> swap_bytes_u16(x.hi)]

hton_u16(x) == IF endian = "big" THEN x ELSE swap_bytes_u16(x)

ntoh_u16(x) == IF endian = "big" THEN x ELSE swap_bytes_u16(x)

hton_u32(x) == IF endian = "big" THEN x ELSE swap_bytes_u32(x)

ntoh_u32(x) == IF endian = "big" THEN x ELSE swap_bytes_u32(x)

u32_from_be_bytes(b) == [hi |-> b[1] * 256 + b[2], lo |-> b[3] * 256 + b[4]]

u32_to_be_bytes(x) == <<x.hi \div 256, x.hi % 256, x.lo \div 256, x.lo % 256>>

\* The bytes a value of the width occupies in the target's memory, from
\* the lowest address up.
to_ne_bytes_u16(x) ==
    IF endian = "big" THEN <<x \div 256, x % 256>> ELSE <<x % 256, x \div 256>>

to_ne_bytes_u32(x) ==
    IF endian = "big"
    THEN u32_to_be_bytes(x)
    ELSE <<x.lo % 256, x.lo \div 256, x.hi % 256, x.hi \div 256>>

Ipv4Addr_octets(a) == <<a[1], a[2], a[3], a[4]>>

Ipv4Addr_from_u32(x) == u32_to_be_bytes(x)

Ipv6Addr_octets(a) ==
    [i \in 1..16 |-> IF i % 2 = 1 THEN a[(i + 1) \div 2] \div 256 ELSE a[i \div 2] % 256]

Ipv6Addr_from_octets(o) == [i \in 1..8 |-> o[2 * i - 1] * 256 + o[2 * i]]

AF_INET == 2

AF_INET6 == 10

size_of_sockaddr_in == 16

size_of_sockaddr_in6 == 28

\* A slip: the base of the struct update is left uninitialised, and the
\* reserved bytes hold whatever the stack held.
zeroed_sockaddr_in_Uninit ==
    [sin_family |-> 0, sin_port |-> 0, sin_addr |-> [s_addr |-> [hi |-> 0, lo |-> 0]],
     sin_zero |-> [i \in 1..8 |-> 170]]

zeroed_sockaddr_in ==
    [sin_family |-> 0, sin_port |-> 0, sin_addr |-> [s_addr |-> [hi |-> 0, lo |-> 0]],
     sin_zero |-> [i \in 1..8 |-> 0]]

zeroed_sockaddr_in6 ==
    [sin6_family |-> 0, sin6_port |-> 0, sin6_flowinfo |-> 0,
     sin6_addr |-> [s6_addr |-> [i \in 1..16 |-> 0]], sin6_scope_id |-> 0]

---------------------------------------------------------------------------
(* libstd/net/ip.rs and libstd/net/addr.rs: the native-form bridge.        *)

FromInner_in_addr(addr) == Ipv4Addr_from_u32(ntoh_u32(addr.s_addr))

FromInner_in6_addr(addr) == Ipv6Addr_from_octets(addr.s6_addr)

\* A slip: the word is stored in host order, hton left out.
IntoInner_Ipv4Addr_NoHton(a) == [s_addr |-> u32_from_be_bytes(Ipv4Addr_octets(a))]

IntoInner_Ipv4Addr(a) == [s_addr |-> hton_u32(u32_from_be_bytes(Ipv4Addr_octets(a)))]

IntoInner_Ipv6Addr(a) == [s6_addr |-> Ipv6Addr_octets(a)]

FromInner_sockaddr_in(addr) ==
    SocketAddrV4_new(FromInner_in_addr(addr.sin_addr), ntoh_u16(addr.sin_port))

\* A slip: the two trailing fields are not read back.
FromInner_sockaddr_in6_DropsExtras(addr) ==
    SocketAddrV6_new(FromInner_in6_addr(addr.sin6_addr), ntoh_u16(addr.sin6_port), 0, 0)

FromInner_sockaddr_in6(addr) ==
    SocketAddrV6_new(FromInner_in6_addr(addr.sin6_addr), ntoh_u16(addr.sin6_port),
                     addr.sin6_flowinfo, addr.sin6_scope_id)

\* A slip of copy and paste: the V6 arm carries the V4 arm's family tag.
IntoInner_SocketAddr_V6TaggedInet(s) ==
    IF s.tag = "V4"
    THEN [member |-> "sockaddr_in",
          sockaddr |-> [zeroed_sockaddr_in EXCEPT
                            !.sin_family = AF_INET,
                            !.sin_port = hton_u16(SocketAddrV4_port(s.a)),
                            !.sin_addr = IntoInner_Ipv4Addr(SocketAddrV4_ip(s.a))],
          len |-> size_of_sockaddr_in]
    ELSE [member |-> "sockaddr_in6",
          sockaddr |-> [zeroed_sockaddr_in6 EXCEPT
                            !.sin6_family = AF_INET,
                            !.sin6_port = hton_u16(SocketAddrV6_port(s.a)),
                            !.sin6_addr = IntoInner_Ipv6Addr(SocketAddrV6_ip(s.a)),
                            !.sin6_flowinfo = SocketAddrV6_flowinfo(s.a),
                            !.sin6_scope_id = SocketAddrV6_scope_id(s.a)],
          len |-> size_of_sockaddr_in6]

IntoInner_SocketAddr(s) ==
    IF s.tag = "V4"
    THEN [member |-> "sockaddr_in",
          sockaddr |-> [zeroed_sockaddr_in EXCEPT
                            !.sin_family = AF_INET,
                            !.sin_port = hton_u16(SocketAddrV4_port(s.a)),
                            !.sin_addr = IntoInner_Ipv4Addr(SocketAddrV4_ip(s.a))],
          len |-> size_of_sockaddr_in]
    ELSE [member |-> "sockaddr_in6",
          sockaddr |-> [zeroed_sockaddr_in6 EXCEPT
                            !.sin6_family = AF_INET6,
                            !.sin6_port = hton_u16(SocketAddrV6_port(s.a)),
                            !.sin6_addr = IntoInner_Ipv6Addr(SocketAddrV6_ip(s.a)),
                            !.sin6_flowinfo = SocketAddrV6_flowinfo(s.a),
                            !.sin6_scope_id = SocketAddrV6_scope_id(s.a)],
          len |-> size_of_sockaddr_in6]

---------------------------------------------------------------------------
(* SpecNative: a value is encoded with IntoInner on a target of either     *)
(* byte order, and the native form is decoded with the matching FromInner. *)

NativeInput(x) ==
    \/ \E s \in Constructed : x = [kind |-> "SocketAddr", v |-> s]
    \/ \E a \in Ipv4Samples : x = [kind |-> "Ipv4Addr", v |-> a]
    \/ \E a \in Ipv6Samples : x = [kind |-> "Ipv6Addr", v |-> a]

InitNative ==
    /\ AddrIdle
    /\ endian \in {"little", "big"}
    /\ NativeInput(val)
    /\ native = [member |-> "none"]
    /\ back = [kind |-> "none"]
    /\ nstage = "start"
    /\ TextIdle
    /\ ResolveIdle

\* What a byte nothing has written may hold.
UninitBytes == {0, 170}

\* The union is built from one member: its bytes past that member are not
\* written (`rest`; twelve of them after a sockaddr_in, none after a
\* sockaddr_in6).
EncodeSocketAddr ==
    /\ nstage = "start"
    /\ val.kind = "SocketAddr"
    /\ \E junk \in UninitBytes :
        native' = [member |-> IntoInner_SocketAddr(val.v).member,
                   sockaddr |-> IntoInner_SocketAddr(val.v).sockaddr,
                   len |-> IntoInner_SocketAddr(val.v).len,
                   rest |-> [i \in 1..(size_of_sockaddr_in6 - IntoInner_SocketAddr(val.v).len)
                                |-> junk]]
    /\ nstage' = "encoded"
    /\ UNCHANGED <<endian, val, back, addrVars, textVars, resolveVars>>

EncodeIpv4Addr ==
    /\ nstage = "start"
    /\ val.kind = "Ipv4Addr"
    /\ native' = [member |-> "in_addr", in_addr |-> IntoInner_Ipv4Addr(val.v)]
    /\ nstage' = "encoded"
    /\ UNCHANGED <<endian, val, back, addrVars, textVars, resolveVars>>

EncodeIpv6Addr ==
    /\ nstage = "start"
    /\ val.kind = "Ipv6Addr"
    /\ native' = [member |-> "in6_addr", in6_addr |-> IntoInner_Ipv6Addr(val.v)]
    /\ nstage' = "encoded"
    /\ UNCHANGED <<endian, val, back, addrVars, textVars, resolveVars>>

DecodeSockaddrIn ==
    /\ nstage = "encoded"
    /\ native.member = "sockaddr_in"
    /\ back' = [kind |-> "SocketAddrV4", v |-> FromInner_sockaddr_in(native.sockaddr)]
    /\ nstage' = "decoded"
    /\ UNCHANGED <<endian, val, native, addrVars, textVars, resolveVars>>

DecodeSockaddrIn6 ==
    /\ nstage = "encoded"
    /\ native.member = "sockaddr_in6"
    /\ back' = [kind |-> "SocketAddrV6", v |-> FromInner_sockaddr_in6(native.sockaddr)]
    /\ nstage' = "decoded"
    /\ UNCHANGED <<endian, val, native, addrVars, textVars, resolveVars>>

DecodeInAddr ==
    /\ nstage = "encoded"
    /\ native.member = "in_addr"
    /\ back' = [kind |-> "Ipv4Addr", v |-> FromInner_in_addr(native.in_addr)]
    /\ nstage' = "decoded"
    /\ UNCHANGED <<endian, val, native, addrVars, textVars, resolveVars>>

DecodeIn6Addr ==
    /\ nstage = "encoded"
    /\ native.member = "in6_addr"
    /\ back' = [kind |-> "Ipv6Addr", v |-> FromInner_in6_addr(native.in6_addr)]
    /\ nstage' = "decoded"
    /\ UNCHANGED <<endian, val, native, addrVars, textVars, resolveVars>>

NextNative ==
    \/ EncodeSocketAddr
    \/ EncodeIpv4Addr
    \/ EncodeIpv6Addr
    \/ DecodeSockaddrIn
    \/ DecodeSockaddrIn6
    \/ DecodeInAddr
    \/ DecodeIn6Addr

SpecNative == InitNative /\ [][NextNative]_vars

(* C4: native-form round trip.  Encoding a SocketAddr with IntoInner and   *)
(* decoding the populated sockaddr_in / sockaddr_in6 member with FromInner *)
(* gives back the SocketAddrV4 / SocketAddrV6 it held, equal in every      *)
(* field including flowinfo and scope_id; an Ipv4Addr and an Ipv6Addr come *)
(* back equal through in_addr / in6_addr.                                  *)
C4_NativeRoundTrip ==
    nstage = "decoded" =>
        /\ back.v = (IF val.kind = "SocketAddr" THEN val.v.a ELSE val.v)
        /\ back.kind = (IF val.kind = "SocketAddr"
                        THEN (IF val.v.tag = "V4" THEN "SocketAddrV4" ELSE "SocketAddrV6")
                        ELSE val.kind)

\* A V6 socket address with nonzero flowinfo and scope_id and a port whose
\* two bytes differ, decoded on a little-endian target.
C4_Witness ==
    /\ nstage = "decoded"
    /\ endian = "little"
    /\ val.kind = "SocketAddr"
    /\ val.v.tag = "V6"
    /\ val.v.a.flowinfo = 10
    /\ val.v.a.scope_id = 78
    /\ val.v.a.port = 8080
    /\ native.sockaddr.sin6_port # 8080
    /\ back.v.flowinfo = 10

\* The port of the value being encoded.
EncodedPort == SocketAddr_port(val.v)

\* The port field of the populated member.
PortField ==
    IF native.member = "sockaddr_in"
    THEN native.sockaddr.sin_port
    ELSE native.sockaddr.sin6_port

(* C16: encoding a SocketAddr selects the member, the family tag and the   *)
(* length from the variant: V4 gives the sockaddr_in member, family        *)
(* AF_INET and length size_of(sockaddr_in); V6 gives the sockaddr_in6      *)
(* member, family AF_INET6 and length size_of(sockaddr_in6).  The tag      *)
(* never disagrees with the populated member and the two tags differ.      *)
C16_FamilyAndLength ==
    /\ AF_INET # AF_INET6
    /\ (val.kind = "SocketAddr" /\ nstage # "start") =>
        /\ native.member \in {"sockaddr_in", "sockaddr_in6"}
        /\ val.v.tag = "V4" =>
            /\ native.member = "sockaddr_in"
            /\ native.sockaddr.sin_family = AF_INET
            /\ native.len = size_of_sockaddr_in
        /\ val.v.tag = "V6" =>
            /\ native.member = "sockaddr_in6"
            /\ native.sockaddr.sin6_family = AF_INET6
            /\ native.len = size_of_sockaddr_in6
        /\ native.member = "sockaddr_in" => native.sockaddr.sin_family # AF_INET6
        /\ native.member = "sockaddr_in6" => native.sockaddr.sin6_family # AF_INET

\* A V6 value encoded on a little-endian target.
C16_Witness ==
    /\ val.kind = "SocketAddr"
    /\ val.v.tag = "V6"
    /\ endian = "little"
    /\ nstage = "encoded"
    /\ native.member = "sockaddr_in6"
    /\ native.sockaddr.sin6_family = 10
    /\ native.len = 28

\* 16-bit values at the edges of the range and with unequal bytes, used as
\* the halves of 32-bit words.
HalfSamples == {0, 1, 255, 256, 4660, 32768, 65280, 65535}

(* C17: byte order of the native form.  For every 16-bit p the bytes of    *)
(* hton(p) in memory are [p div 256, p mod 256] on either target (the      *)
(* target is fixed from the start of a run), and ntoh(hton(x)) = x for     *)
(* every 16-bit x and for 32-bit words.  The port                          *)
(* field of an encoded address is hton(port); the bytes of s_addr in       *)
(* memory are the IPv4 octets a, b, c, d in that order; decoding gives     *)
(* the port back.                                                          *)
C17_NetworkByteOrder ==
    /\ nstage = "start" =>
        \A x \in 0..65535 :
            /\ ntoh_u16(hton_u16(x)) = x
            /\ to_ne_bytes_u16(hton_u16(x)) = <<x \div 256, x % 256>>
    /\ \A h \in HalfSamples, l \in HalfSamples :
        /\ ntoh_u32(hton_u32([hi |-> h, lo |-> l])).hi = h
        /\ ntoh_u32(hton_u32([hi |-> h, lo |-> l])).lo = l
        /\ to_ne_bytes_u32(hton_u32([hi |-> h, lo |-> l]))
                = <<h \div 256, h % 256, l \div 256, l % 256>>
    /\ (val.kind = "SocketAddr" /\ nstage # "start") =>
        /\ PortField = hton_u16(EncodedPort)
        /\ to_ne_bytes_u16(PortField) = <<EncodedPort \div 256, EncodedPort % 256>>
        /\ val.v.tag = "V4" =>
            to_ne_bytes_u32(native.sockaddr.sin_addr.s_addr) = Ipv4Addr_octets(val.v.a.ip)
        /\ nstage = "decoded" => back.v.port = EncodedPort
    /\ (val.kind = "Ipv4Addr" /\ nstage # "start") =>
        to_ne_bytes_u32(native.in_addr.s_addr) = Ipv4Addr_octets(val.v)

\* 77.88.21.11:8080 encoded on a little-endian target: the port field reads
\* 36895 as a host integer and the low half of s_addr 22605 (88, 77), and
\* the port decodes to 8080.
C17_Witness ==
    /\ val.kind = "SocketAddr"
    /\ val.v.tag = "V4"
    /\ val.v.a.ip = <<77, 88, 21, 11>>
    /\ val.v.a.port = 8080
    /\ endian = "little"
    /\ nstage = "decoded"
    /\ native.sockaddr.sin_port = 36895
    /\ native.sockaddr.sin_addr.s_addr.lo = 22605
    /\ back.v.port = 8080

(* C18: in every native structure produced by encoding a SocketAddr, each  *)
(* field of the populated member that is not set from the value is zero    *)
(* (the eight reserved bytes sin_zero of a sockaddr_in; a sockaddr_in6 has *)
(* no such field), and every field is fixed by the value encoded: family   *)
(* by the variant, port and address by hton, flowinfo and scope_id as      *)
(* they are.  Nothing else shows in the populated member, whatever the     *)
(* bytes of the union past it hold.                                        *)
C18_ReservedBytesZero ==
    (val.kind = "SocketAddr" /\ nstage # "start") =>
        /\ val.v.tag = "V4" =>
            /\ DOMAIN native.sockaddr = {"sin_family", "sin_port", "sin_addr", "sin_zero"}
            /\ native.sockaddr.sin_zero = <<0, 0, 0, 0, 0, 0, 0, 0>>
            /\ native.sockaddr.sin_family = AF_INET
            /\ native.sockaddr.sin_port = hton_u16(val.v.a.port)
            /\ to_ne_bytes_u32(native.sockaddr.sin_addr.s_addr) = val.v.a.ip
        /\ val.v.tag = "V6" =>
            /\ DOMAIN native.sockaddr =
                {"sin6_family", "sin6_port", "sin6_flowinfo", "sin6_addr", "sin6_scope_id"}
            /\ native.sockaddr.sin6_family = AF_INET6
            /\ native.sockaddr.sin6_port = hton_u16(val.v.a.port)
            /\ native.sockaddr.sin6_addr.s6_addr = Ipv6Addr_octets(val.v.a.ip)
            /\ native.sockaddr.sin6_flowinfo = val.v.a.flowinfo
            /\ native.sockaddr.sin6_scope_id = val.v.a.scope_id

\* A V4 value encoded into a union whose bytes past the sockaddr_in hold
\* leftovers: the reserved bytes of the member are zero all the same.
C18_Witness ==
    /\ val.kind = "SocketAddr"
    /\ val.v.tag = "V4"
    /\ nstage = "encoded"
    /\ Len(native.rest) = 12
    /\ native.rest[1] = 170
    /\ native.sockaddr.sin_zero[8] = 0

---------------------------------------------------------------------------
(* SpecText: a socket address is rendered with Display and the string is   *)
(* parsed back with the FromStr of the same type.                          *)

TextInput(x) ==
    \/ \E a \in SocketAddrV4Samples : x = [kind |-> "SocketAddrV4", v |-> a]
    \/ \E a \in SocketAddrV6Samples : x = [kind |-> "SocketAddrV6", v |-> a]
    \/ \E s \in Constructed : x = [kind |-> "SocketAddr", v |-> s]

InitText ==
    /\ AddrIdle
    /\ NativeIdle
    /\ ResolveIdle
    /\ TextInput(tval)
    /\ text = <<>>
    /\ parsed = None
    /\ tstage = "start"

FormatSocketAddrV4 ==
    /\ tstage = "start"
    /\ tval.kind = "SocketAddrV4"
    /\ text' = Display_SocketAddrV4(tval.v)
    /\ tstage' = "formatted"
    /\ UNCHANGED <<tval, parsed, addrVars, nativeVars, resolveVars>>

FormatSocketAddrV6 ==
    /\ tstage = "start"
    /\ tval.kind = "SocketAddrV6"
    /\ text' = Display_SocketAddrV6(tval.v)
    /\ tstage' = "formatted"
    /\ UNCHANGED <<tval, parsed, addrVars, nativeVars, resolveVars>>

FormatSocketAddr ==
    /\ tstage = "start"
    /\ tval.kind = "SocketAddr"
    /\ text' = Display_SocketAddr(tval.v)
    /\ tstage' = "formatted"
    /\ UNCHANGED <<tval, parsed, addrVars, nativeVars, resolveVars>>

ParseSocketAddrV4 ==
    /\ tstage = "formatted"
    /\ tval.kind = "SocketAddrV4"
    /\ parsed' = parse_SocketAddrV4(text)
    /\ tstage' = "parsed"
    /\ UNCHANGED <<tval, text, addrVars, nativeVars, resolveVars>>

ParseSocketAddrV6 ==
    /\ tstage = "formatted"
    /\ tval.kind = "SocketAddrV6"
    /\ parsed' = parse_SocketAddrV6(text)
    /\ tstage' = "parsed"
    /\ UNCHANGED <<tval, text, addrVars, nativeVars, resolveVars>>

ParseSocketAddr ==
    /\ tstage = "formatted"
    /\ tval.kind = "SocketAddr"
    /\ parsed' = parse_SocketAddr(text)
    /\ tstage' = "parsed"
    /\ UNCHANGED <<tval, text, addrVars, nativeVars, resolveVars>>

NextText ==
    \/ FormatSocketAddrV4
    \/ FormatSocketAddrV6
    \/ FormatSocketAddr
    \/ ParseSocketAddrV4
    \/ ParseSocketAddrV6
    \/ ParseSocketAddr

SpecText == InitText /\ [][NextText]_vars

\* The struct a text input holds, and whether it is a V6 one.
TextStruct == IF tval.kind = "SocketAddr" THEN tval.v.a ELSE tval.v

TextIsV6 ==
    tval.kind = "SocketAddrV6" \/ (tval.kind = "SocketAddr" /\ tval.v.tag = "V6")

(* C5 as stated: parsing the string Display produced gives a value equal   *)
(* to the original, for every socket address of every variant, a           *)
(* SocketAddrV6 with any flowinfo and scope_id included.                   *)
C5_Original ==
    tstage = "parsed" => (parsed.ok /\ parsed.v = tval.v)

(* C5 as amended: V4 renders as "ip:port" and V6 as "[ip]:port"; parsing   *)
(* the string gives back the same variant, IP and port, and for V6         *)
(* flowinfo = 0 and scope_id = 0.  So parse(format(addr)) == addr for      *)
(* every V4 value and for every V6 value whose flowinfo and scope_id are   *)
(* 0, and a V6 value with a nonzero flowinfo or scope_id comes back with   *)
(* both reset to 0.                                                        *)
C5_TextRoundTrip ==
    /\ tstage \in {"formatted", "parsed"} =>
            (IF TextIsV6
             THEN /\ Head(text) = "["
                  /\ \E k \in 1..(Len(text) - 1) : text[k] = "]" /\ text[k + 1] = ":"
             ELSE /\ \A k \in 1..Len(text) : text[k] \notin {"[", "]"}
                  /\ Cardinality({k \in 1..Len(text) : text[k] = ":"}) = 1)
    /\ tstage = "parsed" =>
            /\ parsed.ok
            /\ (~TextIsV6 => parsed.v = tval.v)
            /\ (TextIsV6 =>
                    LET got == IF tval.kind = "SocketAddr" THEN parsed.v.a ELSE parsed.v
                    IN  /\ tval.kind = "SocketAddr" => parsed.v.tag = "V6"
                        /\ got = [TextStruct EXCEPT !.flowinfo = 0, !.scope_id = 0])
            /\ ((TextIsV6 => (TextStruct.flowinfo = 0 /\ TextStruct.scope_id = 0))
                    => parsed.v = tval.v)

\* A V6 value with nonzero flowinfo and scope_id, rendered and parsed back.
C5_Witness ==
    /\ tstage = "parsed"
    /\ tval.kind = "SocketAddrV6"
    /\ tval.v.flowinfo = 10
    /\ tval.v.scope_id = 78
    /\ tval.v.port = 8080
    /\ parsed.ok
    /\ parsed.v.flowinfo = 0

---------------------------------------------------------------------------
(* libstd/net/addr.rs: ToSocketAddrs.  An io::Result of an iterator is     *)
(* [ok, addrs, err]: addrs is the sequence the iterator yields.  An impl   *)
(* that may need the resolver answers either Return(result) or             *)
(* Lookup(host, port), the LookupHost::try_from it goes on to make.        *)

IoOk(xs) == [ok |-> TRUE, addrs |-> xs, err |-> "none"]

IoErr(kind) == [ok |-> FALSE, addrs |-> <<>>, err |-> kind]

Return(r) == [done |-> TRUE, result |-> r, req |-> NoReq]

Lookup(host, port) == [done |-> FALSE, result |-> NoResult, req |-> [host |-> host, port |-> port]]

ToSocketAddrs_SocketAddr(s) == IoOk(<<s>>)

ToSocketAddrs_SocketAddrV4(a) == ToSocketAddrs_SocketAddr(SocketAddr_V4(a))

\* A slip: the value is rebuilt from its IP and port instead of wrapped.
ToSocketAddrs_SocketAddrV6_Rebuilds(a) ==
    ToSocketAddrs_SocketAddr(
        SocketAddr_new(IpAddr_V6(SocketAddrV6_ip(a)), SocketAddrV6_port(a)))

ToSocketAddrs_SocketAddrV6(a) == ToSocketAddrs_SocketAddr(SocketAddr_V6(a))

ToSocketAddrs_Ipv4Addr_u16(ip, port) ==
    ToSocketAddrs_SocketAddrV4(SocketAddrV4_new(ip, port))

\* A slip in the argument list: the port is passed again as flowinfo.
ToSocketAddrs_Ipv6Addr_u16_PortAsFlowinfo(ip, port) ==
    ToSocketAddrs_SocketAddrV6(SocketAddrV6_new(ip, port, port, 0))

ToSocketAddrs_Ipv6Addr_u16(ip, port) ==
    ToSocketAddrs_SocketAddrV6(SocketAddrV6_new(ip, port, 0, 0))

ToSocketAddrs_IpAddr_u16(ip, port) ==
    IF ip.tag = "V4"
    THEN ToSocketAddrs_Ipv4Addr_u16(ip.a, port)
    ELSE ToSocketAddrs_Ipv6Addr_u16(ip.a, port)

\* The closure resolve_socket_addr maps over the LookupHost.
\* A slip: the record is passed on with the port it came with.
resolve_socket_addr_map_KeepsPort(a, p) == a

resolve_socket_addr_map(a, p) == SocketAddr_set_port(a, p)

\* A slip: only the IPv4 literal is tried before the lookup.
ToSocketAddrs_str_u16_SkipsIpv6(host, port) ==
    IF parse_Ipv4Addr(host).ok
    THEN Return(IoOk(<<SocketAddr_V4(SocketAddrV4_new(parse_Ipv4Addr(host).v, port))>>))
    ELSE Lookup(host, port)

ToSocketAddrs_str_u16(host, port) ==
    IF parse_Ipv4Addr(host).ok
    THEN Return(IoOk(<<SocketAddr_V4(SocketAddrV4_new(parse_Ipv4Addr(host).v, port))>>))
    ELSE IF parse_Ipv6Addr(host).ok
    THEN Return(IoOk(<<SocketAddr_V6(SocketAddrV6_new(parse_Ipv6Addr(host).v, port, 0, 0))>>))
    ELSE Lookup(host, port)

\* str::parse::<u16>: an optional "+", then decimal digits whose value fits.
\* (Digit strings longer than 9 are refused here without being evaluated.)
parse_u16(s) ==
    LET digits == IF Len(s) > 0 /\ s[1] = "+" THEN Tail(s) ELSE s
    IN  read_number(digits, 10, 9, 65536)

\* TryFrom<&str> for LookupHost, up to the resolver call: the string is cut
\* at its last ':' and what follows must be a u16.
SplitHostPort(s) ==
    LET colons == {i \in 1..Len(s) : s[i] = ":"}
        k == CHOOSE i \in colons : \A j \in colons : j <= i
        port == parse_u16(SubSeq(s, k + 1, Len(s)))
    IN  IF colons = {} THEN None
        ELSE IF ~port.ok THEN None
        ELSE Some([host |-> SubSeq(s, 1, k - 1), port |-> port.v])

TryFrom_str_LookupHost(s) ==
    IF SplitHostPort(s).ok
    THEN Lookup(SplitHostPort(s).v.host, SplitHostPort(s).v.port)
    ELSE Return(IoErr("InvalidInput"))

\* A slip: a string that does not split is looked up whole, with port 0.
ToSocketAddrs_str_LooksUpWhole(s) ==
    IF parse_SocketAddr(s).ok
    THEN Return(IoOk(<<parse_SocketAddr(s).v>>))
    ELSE IF SplitHostPort(s).ok
    THEN TryFrom_str_LookupHost(s)
    ELSE Lookup(s, 0)

\* What C10 describes: the split pair is resolved by the (&str, u16) impl.
ToSocketAddrs_str_ViaPair(s) ==
    IF parse_SocketAddr(s).ok
    THEN Return(IoOk(<<parse_SocketAddr(s).v>>))
    ELSE IF SplitHostPort(s).ok
    THEN ToSocketAddrs_str_u16(SplitHostPort(s).v.host, SplitHostPort(s).v.port)
    ELSE Return(IoErr("InvalidInput"))

ToSocketAddrs_str(s) ==
    IF parse_SocketAddr(s).ok
    THEN Return(IoOk(<<parse_SocketAddr(s).v>>))
    ELSE TryFrom_str_LookupHost(s)

\* A slip: only the first element is given, as by the one-address impls.
ToSocketAddrs_slice_FirstOnly(xs) ==
    IoOk(IF xs = <<>> THEN <<>> ELSE <<xs[1]>>)

\* &[SocketAddr]: self.iter().cloned().
ToSocketAddrs_slice(xs) == IoOk([i \in 1..Len(xs) |-> xs[i]])

\* A slip: the text goes straight to the lookup, the literal parse skipped.
ToSocketAddrs_String_SkipsParse(s) == TryFrom_str_LookupHost(s)

\* String: (&**self).to_socket_addrs(), the &T impl over str.
ToSocketAddrs_String(s) == ToSocketAddrs_str(s)

\* *r of a reference r to an input: `depth` counts the & layers.
Deref(r) == IF r.depth > 1 THEN [r EXCEPT !.depth = r.depth - 1] ELSE r.inner

RECURSIVE to_socket_addrs(_)

\* A slip: a reference to a reference is refused instead of followed.
ToSocketAddrs_ref_OneLevel(r) ==
    IF r.depth > 1 THEN Return(IoErr("InvalidInput")) ELSE to_socket_addrs(r.inner)

\* &T: (**self).to_socket_addrs().
ToSocketAddrs_ref(r) == to_socket_addrs(Deref(r))

\* The impl the call is dispatched to by the type of the input.
to_socket_addrs(x) ==
    CASE x.shape = "SocketAddr" -> Return(ToSocketAddrs_SocketAddr(x.v))
      [] x.shape = "SocketAddrV4" -> Return(ToSocketAddrs_SocketAddrV4(x.v))
      [] x.shape = "SocketAddrV6" -> Return(ToSocketAddrs_SocketAddrV6(x.v))
      [] x.shape = "IpAddr_u16" -> Return(ToSocketAddrs_IpAddr_u16(x.ip, x.port))
      [] x.shape = "Ipv4Addr_u16" -> Return(ToSocketAddrs_Ipv4Addr_u16(x.ip, x.port))
      [] x.shape = "Ipv6Addr_u16" -> Return(ToSocketAddrs_Ipv6Addr_u16(x.ip, x.port))
      [] x.shape = "str_u16" -> ToSocketAddrs_str_u16(x.host, x.port)
      [] x.shape = "str" -> ToSocketAddrs_str(x.s)
      [] x.shape = "slice" -> Return(ToSocketAddrs_slice(x.v))
      [] x.shape = "String" -> ToSocketAddrs_String(x.s)
      [] x.shape = "ref" -> ToSocketAddrs_ref(x)

---------------------------------------------------------------------------
(* SpecResolve: one call of to_socket_addrs on an input of any shape, the  *)
(* resolver answering a lookup with an error or with any sequence of up to *)
(* MaxRecords records, and the caller draining the iterator returned.      *)

MaxRecords == 2

HostSamples ==
    { \* "127.0.0.1"
      <<"1", "2", "7", ".", "0", ".", "0", ".", "1">>,
      \* "77.88.21.11"
      <<"7", "7", ".", "8", "8", ".", "2", "1", ".", "1", "1">>,
      \* "::1"
      <<":", ":", "1">>,
      \* "2a02:6b8:0:1::1"
      <<"2", "a", "0", "2", ":", "6", "b", "8", ":", "0", ":", "1", ":", ":", "1">>,
      \* "localhost"
      <<"l", "o", "c", "a", "l", "h", "o", "s", "t">>,
      \* "256.0.0.1"
      <<"2", "5", "6", ".", "0", ".", "0", ".", "1">> }

StrSamples ==
    { \* "77.88.21.11:24352"
      <<"7", "7", ".", "8", "8", ".", "2", "1", ".", "1", "1", ":", "2", "4", "3", "5", "2">>,
      \* "[2a02:6b8:0:1::1]:53"
      <<"[", "2", "a", "0", "2", ":", "6", "b", "8", ":", "0", ":", "1", ":", ":", "1", "]", ":", "5", "3">>,
      \* "[::1]:8080"
      <<"[", ":", ":", "1", "]", ":", "8", "0", "8", "0">>,
      \* "localhost:23924"
      <<"l", "o", "c", "a", "l", "h", "o", "s", "t", ":", "2", "3", "9", "2", "4">>,
      \* "127.0.0.1"
      <<"1", "2", "7", ".", "0", ".", "0", ".", "1">>,
      \* "2a02:6b8:0:1::1:53"
      <<"2", "a", "0", "2", ":", "6", "b", "8", ":", "0", ":", "1", ":", ":", "1", ":", "5", "3">>,
      \* "::1:53"
      <<":", ":", "1", ":", "5", "3">>,
      \* "localhost:http"
      <<"l", "o", "c", "a", "l", "h", "o", "s", "t", ":", "h", "t", "t", "p">>,
      \* "localhost:65536"
      <<"l", "o", "c", "a", "l", "h", "o", "s", "t", ":", "6", "5", "5", "3", "6">>,
      \* "localhost"
      <<"l", "o", "c", "a", "l", "h", "o", "s", "t">>,
      \* "1200::AB00:1234::2552:7777:1313:34300"
      <<"1", "2", "0", "0", ":", ":", "A", "B", "0", "0", ":", "1", "2", "3", "4", ":", ":", "2", "5", "5", "2", ":", "7", "7", "7", "7", ":", "1", "3", "1", "3", ":", "3", "4", "3", "0", "0">> }

\* Records a resolver may produce: each carries a port of its own, and the
\* V6 one a flowinfo and a scope_id.
ResolverRecordSamples ==
    { SocketAddr_V4(SocketAddrV4_new(<<127, 0, 0, 1>>, 0)),
      SocketAddr_V4(SocketAddrV4_new(<<77, 88, 21, 11>>, 8080)),
      SocketAddr_V6(SocketAddrV6_new(<<0, 0, 0, 0, 0, 0, 0, 1>>, 443, 10, 78)) }

RecordSeqs == UNION {[1..n -> ResolverRecordSamples] : n \in 0..MaxRecords}

\* Slices are drawn from a few addresses, one of them a V6 with nonzero
\* flowinfo and scope_id; an element may occur twice.
MaxSlice == 3

SliceSamples ==
    { SocketAddr_V4(SocketAddrV4_new(<<127, 0, 0, 1>>, 80)),
      SocketAddr_V4(SocketAddrV4_new(<<77, 88, 21, 11>>, 0)),
      SocketAddr_V6(SocketAddrV6_new(<<0, 0, 0, 0, 0, 0, 0, 1>>, 8080, 10, 78)) }

SliceSeqs == UNION {[1..n -> SliceSamples] : n \in 0..MaxSlice}

\* The deepest nesting of references tried: &T and &&T.
MaxRefDepth == 2

\* The inputs of every shape but a reference, each wrapped by W.
ShapedInput(x, W(_)) ==
    \/ \E s \in Constructed : x = W([shape |-> "SocketAddr", v |-> s])
    \/ \E a \in SocketAddrV4Samples : x = W([shape |-> "SocketAddrV4", v |-> a])
    \/ \E a \in SocketAddrV6Samples : x = W([shape |-> "SocketAddrV6", v |-> a])
    \/ \E ip \in IpAddrSamples, p \in PortSamples :
            x = W([shape |-> "IpAddr_u16", ip |-> ip, port |-> p])
    \/ \E ip \in Ipv4Samples, p \in PortSamples :
            x = W([shape |-> "Ipv4Addr_u16", ip |-> ip, port |-> p])
    \/ \E ip \in Ipv6Samples, p \in PortSamples :
            x = W([shape |-> "Ipv6Addr_u16", ip |-> ip, port |-> p])
    \/ \E h \in HostSamples, p \in PortSamples :
            x = W([shape |-> "str_u16", host |-> h, port |-> p])
    \/ \E s \in StrSamples : x = W([shape |-> "str", s |-> s])
    \/ \E xs \in SliceSeqs : x = W([shape |-> "slice", v |-> xs])
    \/ \E s \in StrSamples : x = W([shape |-> "String", s |-> s])

Owned(y) == y

ResolveInput(x) ==
    \/ ShapedInput(x, Owned)
    \/ \E d \in 1..MaxRefDepth :
            ShapedInput(x, LAMBDA y : [shape |-> "ref", depth |-> d, inner |-> y])

InitResolve ==
    /\ AddrIdle
    /\ NativeIdle
    /\ TextIdle
    /\ ResolveInput(input)
    /\ pc = "ready"
    /\ req = NoReq
    /\ lh = [records |-> <<>>, port |-> 0]
    /\ resolved = <<>>
    /\ v = <<>>
    /\ result = NoResult
    /\ yielded = <<>>
    /\ lookups = 0
    /\ reads = 0

otherVars == <<addrVars, nativeVars, textVars>>

\* The call returns r at once, the resolver untouched.
Returns(r) ==
    /\ result' = r
    /\ pc' = "returned"
    /\ UNCHANGED <<input, req, lh, resolved, v, yielded, lookups, reads, otherVars>>

\* The call either returns at once or goes on to LookupHost::try_from.
Continues(c) ==
    /\ result' = c.result
    /\ req' = c.req
    /\ pc' = IF c.done THEN "returned" ELSE "lookup"
    /\ UNCHANGED <<input, lh, resolved, v, yielded, lookups, reads, otherVars>>

CallSocketAddr ==
    /\ pc = "ready"
    /\ input.shape = "SocketAddr"
    /\ Returns(ToSocketAddrs_SocketAddr(input.v))

CallSocketAddrV4 ==
    /\ pc = "ready"
    /\ input.shape = "SocketAddrV4"
    /\ Returns(ToSocketAddrs_SocketAddrV4(input.v))

CallSocketAddrV6 ==
    /\ pc = "ready"
    /\ input.shape = "SocketAddrV6"
    /\ Returns(ToSocketAddrs_SocketAddrV6(input.v))

CallIpAddrPort ==
    /\ pc = "ready"
    /\ input.shape = "IpAddr_u16"
    /\ Returns(ToSocketAddrs_IpAddr_u16(input.ip, input.port))

CallIpv4AddrPort ==
    /\ pc = "ready"
    /\ input.shape = "Ipv4Addr_u16"
    /\ Returns(ToSocketAddrs_Ipv4Addr_u16(input.ip, input.port))

CallIpv6AddrPort ==
    /\ pc = "ready"
    /\ input.shape = "Ipv6Addr_u16"
    /\ Returns(ToSocketAddrs_Ipv6Addr_u16(input.ip, input.port))

CallStrPort ==
    /\ pc = "ready"
    /\ input.shape = "str_u16"
    /\ Continues(ToSocketAddrs_str_u16(input.host, input.port))

CallStr ==
    /\ pc = "ready"
    /\ input.shape = "str"
    /\ Continues(ToSocketAddrs_str(input.s))

CallSlice ==
    /\ pc = "ready"
    /\ input.shape = "slice"
    /\ Returns(ToSocketAddrs_slice(input.v))

CallString ==
    /\ pc = "ready"
    /\ input.shape = "String"
    /\ Continues(ToSocketAddrs_String(input.s))

CallRef ==
    /\ pc = "ready"
    /\ input.shape = "ref"
    /\ Continues(ToSocketAddrs_ref(input))

\* `?` on the Err of LookupHost::try_from: the call returns the error.
\* A slip: the lookup is made again instead.
try_into_Err_Retries(e) == [pc |-> "lookup", result |-> NoResult]

try_into_Err(e) == [pc |-> "returned", result |-> IoErr(e)]

\* LookupHost::try_from((host, port)) fails: `?` returns the error.
LookupFails ==
    /\ pc = "lookup"
    /\ lookups' = lookups + 1
    /\ result' = try_into_Err("resolver").result
    /\ pc' = try_into_Err("resolver").pc
    /\ UNCHANGED <<input, req, lh, resolved, v, yielded, reads, otherVars>>

\* LookupHost::try_from((host, port)) succeeds: resolve_socket_addr(lh) starts.
LookupSucceeds ==
    /\ pc = "lookup"
    /\ \E recs \in RecordSeqs :
        /\ lh' = [records |-> recs, port |-> req.port]
        /\ resolved' = recs
    /\ lookups' = lookups + 1
    /\ pc' = "collect"
    /\ UNCHANGED <<input, req, v, result, yielded, reads, otherVars>>

\* lh.map(|mut a| { a.set_port(p); a }).collect(): one record is read.
CollectNext ==
    /\ pc = "collect"
    /\ lh.records # <<>>
    /\ v' = Append(v, resolve_socket_addr_map(Head(lh.records), lh.port))
    /\ lh' = [lh EXCEPT !.records = Tail(lh.records)]
    /\ reads' = reads + 1
    /\ UNCHANGED <<input, pc, req, resolved, result, yielded, lookups, otherVars>>

\* A slip: the call returns what it has read so far, the LookupHost not
\* yet found empty.
CollectDone_Early ==
    /\ pc = "collect"
    /\ result' = IoOk(v)
    /\ pc' = "returned"
    /\ UNCHANGED <<input, req, lh, resolved, v, yielded, lookups, reads, otherVars>>

\* The LookupHost is exhausted: Ok(v.into_iter()).
CollectDone ==
    /\ pc = "collect"
    /\ lh.records = <<>>
    /\ result' = IoOk(v)
    /\ pc' = "returned"
    /\ UNCHANGED <<input, req, lh, resolved, v, yielded, lookups, reads, otherVars>>

\* The caller's next() on the returned iterator gives Some(element).
IterNext ==
    /\ pc = "returned"
    /\ result.ok
    /\ result.addrs # <<>>
    /\ yielded' = Append(yielded, Head(result.addrs))
    /\ result' = [result EXCEPT !.addrs = Tail(result.addrs)]
    /\ UNCHANGED <<input, pc, req, lh, resolved, v, lookups, reads, otherVars>>

\* The caller's next() gives None.
IterEnd ==
    /\ pc = "returned"
    /\ result.ok
    /\ result.addrs = <<>>
    /\ pc' = "exhausted"
    /\ UNCHANGED <<input, req, lh, resolved, v, result, yielded, lookups, reads, otherVars>>

NextResolve ==
    \/ CallSocketAddr
    \/ CallSocketAddrV4
    \/ CallSocketAddrV6
    \/ CallIpAddrPort
    \/ CallIpv4AddrPort
    \/ CallIpv6AddrPort
    \/ CallStrPort
    \/ CallStr
    \/ CallSlice
    \/ CallString
    \/ CallRef
    \/ LookupFails
    \/ LookupSucceeds
    \/ CollectNext
    \/ CollectDone
    \/ IterNext
    \/ IterEnd

SpecResolve == InitResolve /\ [][NextResolve]_vars

\* The call has returned.
Returned == pc \in {"returned", "exhausted"}

\* The whole sequence the returned iterator yields: taken and still to come.
Sequence == yielded \o result.addrs

---------------------------------------------------------------------------
(* C6: to_socket_addrs on a SocketAddr, SocketAddrV4 or SocketAddrV6       *)
(* returns Ok with exactly one element, the input itself (a V4/V6 struct   *)
(* in the matching SocketAddr variant, flowinfo and scope_id kept); after  *)
(* that element the iterator yields nothing, and the resolver is never     *)
(* invoked.                                                                *)
C6_ConcreteAddrYieldsItself ==
    input.shape \in {"SocketAddr", "SocketAddrV4", "SocketAddrV6"} =>
        /\ lookups = 0
        /\ pc \in {"ready", "returned", "exhausted"}
        /\ Returned =>
            /\ result.ok
            /\ Len(Sequence) = 1
            /\ (input.shape = "SocketAddr" => Sequence[1] = input.v)
            /\ (input.shape = "SocketAddrV4" =>
                    Sequence[1].tag = "V4" /\ Sequence[1].a = input.v)
            /\ (input.shape = "SocketAddrV6" =>
                    /\ Sequence[1].tag = "V6"
                    /\ Sequence[1].a.ip = input.v.ip
                    /\ Sequence[1].a.port = input.v.port
                    /\ Sequence[1].a.flowinfo = input.v.flowinfo
                    /\ Sequence[1].a.scope_id = input.v.scope_id)
        /\ pc = "exhausted" => Len(yielded) = 1

\* A SocketAddrV6 with nonzero flowinfo and scope_id, its one element taken
\* and the iterator then found empty.
C6_Witness ==
    /\ input.shape = "SocketAddrV6"
    /\ input.v.flowinfo = 10
    /\ input.v.scope_id = 78
    /\ pc = "exhausted"
    /\ Len(yielded) = 1
    /\ yielded[1].a.flowinfo = 10

(* C7: to_socket_addrs on (IpAddr, port), (Ipv4Addr, port) or (Ipv6Addr,   *)
(* port) returns Ok with exactly one element, SocketAddr::new(ip, port):   *)
(* the variant of the IP's family, the given port, and for V6 flowinfo and *)
(* scope_id 0; the resolver is never invoked.                              *)
C7_TupleYieldsNew ==
    input.shape \in {"IpAddr_u16", "Ipv4Addr_u16", "Ipv6Addr_u16"} =>
        LET ip == IF input.shape = "IpAddr_u16" THEN input.ip
                  ELSE IF input.shape = "Ipv4Addr_u16" THEN IpAddr_V4(input.ip)
                  ELSE IpAddr_V6(input.ip)
        IN  /\ lookups = 0
            /\ pc \in {"ready", "returned", "exhausted"}
            /\ Returned =>
                /\ result.ok
                /\ Len(Sequence) = 1
                /\ Sequence[1] = SocketAddr_new(ip, input.port)
                /\ Sequence[1].tag = ip.tag
                /\ Sequence[1].a.ip = ip.a
                /\ Sequence[1].a.port = input.port
                /\ (ip.tag = "V6" =>
                        Sequence[1].a.flowinfo = 0 /\ Sequence[1].a.scope_id = 0)

\* An (Ipv6Addr, port) tuple with a nonzero port, resolved and drained.
C7_Witness ==
    /\ input.shape = "Ipv6Addr_u16"
    /\ input.port = 8080
    /\ pc = "exhausted"
    /\ Len(yielded) = 1
    /\ yielded[1].tag = "V6"

\* The input is a literal: a host that parses as an IPv4 or IPv6 address,
\* or a bare string that parses as a complete socket address.
IsLiteralInput ==
    \/ /\ input.shape = "str_u16"
       /\ (parse_Ipv4Addr(input.host).ok \/ parse_Ipv6Addr(input.host).ok)
    \/ /\ input.shape = "str"
       /\ parse_SocketAddr(input.s).ok

(* C8: resolving a literal never invokes the hostname lookup.  For (host,  *)
(* port) with host an IPv4 or IPv6 literal, and for a bare string that     *)
(* parses as a complete socket address, to_socket_addrs returns Ok with    *)
(* exactly one element, the parsed address with the given / parsed port,   *)
(* and the resolver is invoked zero times.                                 *)
C8_LiteralNeverLooksUp ==
    IsLiteralInput =>
        /\ lookups = 0
        /\ pc \in {"ready", "returned", "exhausted"}
        /\ Returned =>
            /\ result.ok
            /\ Len(Sequence) = 1
            /\ (input.shape = "str_u16" =>
                    /\ SocketAddr_port(Sequence[1]) = input.port
                    /\ (parse_Ipv4Addr(input.host).ok =>
                            SocketAddr_ip(Sequence[1]) = IpAddr_V4(parse_Ipv4Addr(input.host).v))
                    /\ (~parse_Ipv4Addr(input.host).ok =>
                            /\ SocketAddr_ip(Sequence[1]) = IpAddr_V6(parse_Ipv6Addr(input.host).v)
                            /\ Sequence[1].a.flowinfo = 0
                            /\ Sequence[1].a.scope_id = 0))
            /\ (input.shape = "str" => Sequence[1] = parse_SocketAddr(input.s).v)

\* ("2a02:6b8:0:1::1", 8080) resolved to the one V6 address, no lookup made.
C8_Witness ==
    /\ input.shape = "str_u16"
    /\ input.port = 8080
    /\ pc = "exhausted"
    /\ lookups = 0
    /\ yielded = <<SocketAddr_V6(SocketAddrV6_new(<<10754, 1720, 0, 1, 0, 0, 0, 1>>, 8080, 0, 0))>>

(* C9: for (host, port) with host not an IP literal and a resolver that    *)
(* succeeds with records r1..rn, to_socket_addrs returns exactly n         *)
(* elements in the resolver's order; element i has the IP, the family and  *)
(* for V6 the flowinfo and scope_id of ri, and the requested port whatever *)
(* port ri carried.                                                        *)
C9_ResolverOrderPortForced ==
    (/\ input.shape = "str_u16"
     /\ ~parse_Ipv4Addr(input.host).ok
     /\ ~parse_Ipv6Addr(input.host).ok
     /\ Returned
     /\ result.ok) =>
        /\ Len(Sequence) = Len(resolved)
        /\ \A i \in 1..Len(resolved) :
            /\ Sequence[i].tag = resolved[i].tag
            /\ Sequence[i].a.ip = resolved[i].a.ip
            /\ Sequence[i].a.port = input.port
            /\ (resolved[i].tag = "V6" =>
                    /\ Sequence[i].a.flowinfo = resolved[i].a.flowinfo
                    /\ Sequence[i].a.scope_id = resolved[i].a.scope_id)

\* Two records of different families, neither carrying the requested port.
C9_Witness ==
    /\ input.shape = "str_u16"
    /\ input.port = 80
    /\ pc = "exhausted"
    /\ Len(resolved) = 2
    /\ resolved[1].tag = "V6"
    /\ resolved[1].a.port = 443
    /\ resolved[2].tag = "V4"
    /\ resolved[2].a.port = 8080
    /\ Len(yielded) = 2
    /\ yielded[1].a.port = 80

\* The input is a bare string that is no complete socket address and splits
\* into a host and a port.
IsSplitStr ==
    /\ input.shape = "str"
    /\ ~parse_SocketAddr(input.s).ok
    /\ SplitHostPort(input.s).ok

\* What the (&str, u16) impl does with the pair the bare string splits into.
PairOutcome ==
    ToSocketAddrs_str_u16(SplitHostPort(input.s).v.host, SplitHostPort(input.s).v.port)

IsMalformedColonText ==
    /\ input.shape = "str"
    /\ ~parse_SocketAddr(input.s).ok
    /\ Cardinality({i \in 1..Len(input.s) : input.s[i] = ":"}) >= 2

(* C11: to_socket_addrs on a bare string made of an unbracketed IPv6       *)
(* address followed by ":port" ("2a02:6b8:0:1::1:53"), or on any other     *)
(* malformed colon-separated address text, returns an error and never a    *)
(* successful result.                                                      *)
C11_MalformedIsError ==
    (IsMalformedColonText /\ Returned) => ~result.ok

\* The input is a bare string that is no complete socket address and does
\* not split into a host and a u16 port.
IsUnsplittableStr ==
    /\ input.shape = "str"
    /\ ~parse_SocketAddr(input.s).ok
    /\ ~SplitHostPort(input.s).ok

(* C12: a bare string that is not a complete socket address and cannot be  *)
(* split into a host and a u16 port (no ':' at all, as in "127.0.0.1", or  *)
(* a port part that is not a u16) makes to_socket_addrs return an error of *)
(* kind InvalidInput, not a resolver failure, with no address, and the     *)
(* resolver is not invoked.                                                *)
C12_UnsplittableIsInvalidInput ==
    IsUnsplittableStr =>
        /\ lookups = 0
        /\ req = NoReq
        /\ pc \in {"ready", "returned"}
        /\ Returned =>
            /\ ~result.ok
            /\ result.err = "InvalidInput"
            /\ result.err # "resolver"
            /\ Sequence = <<>>

\* "127.0.0.1", without a port, was refused.
C12_Witness ==
    /\ input.shape = "str"
    /\ input.s = <<"1", "2", "7", ".", "0", ".", "0", ".", "1">>
    /\ pc = "returned"
    /\ result.err = "InvalidInput"
    /\ lookups = 0

\* The value a reference input refers to, through all its & layers.
Underlying(x) == IF x.shape = "ref" THEN x.inner ELSE x

(* C13: the resolver is invoked at most once in any call of                *)
(* to_socket_addrs, and only for a (host, port) or bare-string input (a    *)
(* str or a String, owned or behind references).  If that lookup fails,    *)
(* the call returns the lookup's error and no address at all: no record    *)
(* was read, nothing is yielded, and the resolver was invoked exactly      *)
(* once, without a retry.                                                  *)
C13_LookupFailurePropagates ==
    /\ lookups <= 1
    /\ lookups = 1 => Underlying(input).shape \in {"str_u16", "str", "String"}
    /\ pc = "lookup" => lookups = 0
    /\ pc = "collect" => lookups = 1
    /\ (Returned /\ result.err = "resolver") =>
        /\ ~result.ok
        /\ lookups = 1
        /\ pc = "returned"
        /\ reads = 0
        /\ v = <<>>
        /\ Sequence = <<>>

\* ("localhost", 80): the one lookup failed and the call returned its error.
C13_Witness ==
    /\ input.shape = "str_u16"
    /\ input.host = <<"l", "o", "c", "a", "l", "h", "o", "s", "t">>
    /\ pc = "returned"
    /\ ~result.ok
    /\ result.err = "resolver"
    /\ lookups = 1

(* C14: to_socket_addrs on a slice of SocketAddr returns Ok with a         *)
(* sequence as long as the slice whose i-th element is the slice's i-th    *)
(* element, equal in variant, IP, port and for V6 flowinfo and scope_id,   *)
(* for every length from zero up; the resolver is never invoked.           *)
C14_SliceYieldsItself ==
    input.shape = "slice" =>
        /\ lookups = 0
        /\ pc \in {"ready", "returned", "exhausted"}
        /\ Returned =>
            /\ result.ok
            /\ Len(Sequence) = Len(input.v)
            /\ \A i \in 1..Len(input.v) :
                /\ Sequence[i].tag = input.v[i].tag
                /\ Sequence[i].a.ip = input.v[i].a.ip
                /\ Sequence[i].a.port = input.v[i].a.port
                /\ (input.v[i].tag = "V6" =>
                        /\ Sequence[i].a.flowinfo = input.v[i].a.flowinfo
                        /\ Sequence[i].a.scope_id = input.v[i].a.scope_id)
        /\ pc = "exhausted" => Len(yielded) = Len(input.v)

\* A slice of three addresses, the V6 one with flowinfo 10 in the middle,
\* resolved and drained.
C14_Witness ==
    /\ input.shape = "slice"
    /\ Len(input.v) = 3
    /\ input.v[1].tag = "V4"
    /\ input.v[2].tag = "V6"
    /\ input.v[3].tag = "V4"
    /\ input.v[1].a.port # input.v[3].a.port
    /\ pc = "exhausted"
    /\ Len(yielded) = 3
    /\ yielded[2].a.flowinfo = 10

\* The input is wrapped: a reference of any depth, or an owned String.
IsWrapper == input.shape \in {"ref", "String"}

\* The value under the wrapping: what the references refer to, and for a
\* String the str it holds.
Unwrapped(x) ==
    IF Underlying(x).shape = "String"
    THEN [shape |-> "str", s |-> Underlying(x).s]
    ELSE Underlying(x)

\* What the impl of the unwrapped value does with it.
UnwrappedOutcome == to_socket_addrs(Unwrapped(input))

(* C15: wrapping an input by reference (&T, at any depth) or as an owned   *)
(* String does not change resolution.  Where the impl of the underlying    *)
(* value returns without a lookup, the call on the wrapper returns the     *)
(* same Ok sequence or the same error, the resolver not invoked; where it  *)
(* goes to the resolver, the call on the wrapper makes the same one        *)
(* request and returns that lookup's error or its records in order with    *)
(* the port forced.                                                        *)
C15_WrapperDelegates ==
    IsWrapper =>
        /\ UnwrappedOutcome.done =>
            /\ lookups = 0
            /\ pc \in {"ready", "returned", "exhausted"}
            /\ Returned =>
                /\ result.ok = UnwrappedOutcome.result.ok
                /\ result.err = UnwrappedOutcome.result.err
                /\ Sequence = UnwrappedOutcome.result.addrs
        /\ ~UnwrappedOutcome.done =>
            /\ pc # "ready" => req = UnwrappedOutcome.req
            /\ lookups = (IF pc \in {"ready", "lookup"} THEN 0 ELSE 1)
            /\ Returned =>
                /\ result.ok \/ result.err = "resolver"
                /\ result.ok =>
                    /\ Len(Sequence) = Len(resolved)
                    /\ \A i \in 1..Len(resolved) :
                        Sequence[i] = SocketAddr_set_port(resolved[i], UnwrappedOutcome.req.port)

\* A reference to a reference to the String "localhost:23924": one lookup,
\* two records, both yielded.
C15_Witness ==
    /\ input.shape = "ref"
    /\ input.depth = 2
    /\ input.inner.shape = "String"
    /\ ~UnwrappedOutcome.done
    /\ req.port = 23924
    /\ pc = "exhausted"
    /\ lookups = 1
    /\ Len(yielded) = 2

(* C19: when to_socket_addrs on a hostname input returns Ok, the           *)
(* resolver's result sequence has been consumed to exhaustion inside the   *)
(* call: every record was read exactly once before the return and none is  *)
(* left.  The returned sequence is finite and has as many elements as the  *)
(* resolver produced, and consuming it does not touch the resolver again:  *)
(* the counts of lookups and of records read stay as they were at the      *)
(* return, however far the caller has drained it.                          *)
C19_DrainedBeforeReturn ==
    /\ pc = "collect" =>
        /\ reads + Len(lh.records) = Len(resolved)
        /\ Len(v) = reads
        /\ yielded = <<>>
    /\ (Returned /\ result.ok /\ lookups = 1) =>
        /\ lh.records = <<>>
        /\ reads = Len(resolved)
        /\ Len(Sequence) = Len(resolved)
        /\ Len(yielded) <= Len(resolved)
    /\ (Returned /\ lookups = 0) => reads = 0

\* ("localhost", 80) with a resolver giving two records: both were read in
\* the call, and the caller has since drained the two elements.
C19_Witness ==
    /\ input.shape = "str_u16"
    /\ pc = "exhausted"
    /\ lookups = 1
    /\ Len(resolved) = 2
    /\ reads = 2
    /\ lh.records = <<>>
    /\ Len(yielded) = 2

===========================================================================
